---- MODULE Spec2Model ----
(***************************************************************************)
(* A model of server.js, the multi-provider chat-completion proxy          *)
(* (NVIDIA NIM + ElectronHub).                                             *)
(*                                                                         *)
(* Text is modelled at the character level: a JavaScript string is a TLA+  *)
(* string, the upstream stream is a string of bytes cut into chunks, and   *)
(* everything written to the client is the text res.write is given.        *)
(* JSON.parse and JSON.stringify are modelled as a parser and a printer    *)
(* over that text, chunk.toString() as a UTF-8 decoder.                    *)
(*                                                                         *)
(* The two feature toggles are constants of a deployment; the model        *)
(* covers every setting of them.                                           *)
(***************************************************************************)
EXTENDS Integers, Sequences, FiniteSets, TLC

VARIABLES
    SHOW_REASONING,        \* the feature toggle of server.js:25
    ENABLE_THINKING_MODE,  \* the feature toggle of server.js:26
    provider,              \* detectProvider(req.path)
    body,                  \* req.body, the client's request
    pc,                    \* where the handler of the request stands
    probe,                 \* the outcome of the capability probe, "none" before it
    probes,                \* the models probed, in order
    nimModel,              \* server.js:102 (ehubModel, server.js:292, on /ehub)
    posts,                 \* the bodies posted to the upstream chat endpoint, in order
    reply,                 \* how the main request ended: its error, or response.data
    responses,             \* the documents sent with res.json, in order
    upstream,              \* streaming: the bytes the upstream stream will carry
    pos,                   \* streaming: how many of them were delivered
    received,              \* streaming: the text of the chunks so far, as decoded
    buffer,                \* server.js:164
    reasoningStarted,      \* server.js:165
    out,                   \* streaming: the strings given to res.write, in order
    ended,                 \* streaming: "open", or how the stream ended
    client,                \* streaming: "connected", or "gone" once the client closed
    late,                  \* streaming: a chunk was handled after the client closed
    other                  \* a second streaming response in flight, "none" its ended without one

(***************************************************************************)
(* JavaScript values.  Every value is a record with a tag t, so that any   *)
(* two of them can be compared.                                            *)
(***************************************************************************)
Undefined == [t |-> "undefined"]
Null == [t |-> "null"]
Str(s) == [t |-> "str", s |-> s]
Num(n) == [t |-> "num", n |-> n]
Bool(b) == [t |-> "bool", b |-> b]
Arr(a) == [t |-> "arr", a |-> a]
\* An object is the sequence of its own properties, in insertion order.
Obj(m) == [t |-> "obj", m |-> m]
\* A function object, such as the ones Object.prototype holds.
Function == [t |-> "function"]

\* ToBoolean: what `if (v)`, `v && ...`, `v || ...` and `!v` test.
Truthy(v) ==
    CASE v.t = "undefined" -> FALSE
      [] v.t = "null" -> FALSE
      [] v.t = "str" -> v.s # ""
      [] v.t = "num" -> v.n # 0
      [] v.t = "bool" -> v.b
      [] OTHER -> TRUE

\* a || b
OrElse(a, b) == IF Truthy(a) THEN a ELSE b

\* a ?? b
Coalesce(a, b) == IF a.t \in {"undefined", "null"} THEN b ELSE a

HasKey(o, k) == o.t = "obj" /\ \E i \in 1..Len(o.m) : o.m[i].k = k

KeyIndex(o, k) == CHOOSE i \in 1..Len(o.m) : o.m[i].k = k

\* o.k for a value that is neither null nor undefined (own properties only).
Get(o, k) == IF HasKey(o, k) THEN o.m[KeyIndex(o, k)].v ELSE Undefined

\* o.k = v: an existing property keeps its place, a new one goes last.
\* An assignment to a property of a primitive is silently dropped.
SetKey(o, k, v) ==
    IF o.t # "obj" THEN o
    ELSE IF HasKey(o, k)
         THEN Obj([o.m EXCEPT ![KeyIndex(o, k)] = [k |-> k, v |-> v]])
         ELSE Obj(Append(o.m, [k |-> k, v |-> v]))

\* delete o.k
DeleteKey(o, k) ==
    IF o.t # "obj" THEN o
    ELSE Obj(SelectSeq(o.m, LAMBDA p : p.k # k))

\* a?.[0]
First(a) == IF a.t = "arr" /\ Len(a.a) > 0 THEN a.a[1] ELSE Undefined

(***************************************************************************)
(* Characters and digits.                                                  *)
(***************************************************************************)
Ch(s, i) == IF 1 <= i /\ i <= Len(s) THEN SubSeq(s, i, i) ELSE ""

Rest(s, i) == SubSeq(s, i, Len(s))

\* The characters i..j of s that exist.
Slice(s, i, j) == IF i > Len(s) THEN "" ELSE SubSeq(s, i, IF j > Len(s) THEN Len(s) ELSE j)

StartsWith(s, p) == Len(s) >= Len(p) /\ SubSeq(s, 1, Len(p)) = p

Digits == <<"0", "1", "2", "3", "4", "5", "6", "7", "8", "9">>

IsDigit(c) == \E d \in 1..10 : Digits[d] = c

DigitVal(c) == (CHOOSE d \in 1..10 : Digits[d] = c) - 1

RECURSIVE NatToStr(_)
NatToStr(n) == IF n < 10 THEN Digits[n + 1] ELSE NatToStr(n \div 10) \o Digits[(n % 10) + 1]

(***************************************************************************)
(* JSON.parse, on the JSON texts without insignificant white space whose   *)
(* strings use the escapes \n, \" and \\ only and whose numbers are        *)
(* unsigned integers.  A result is [ok, v, i]: whether a value was read,   *)
(* the value, and the index after it.                                      *)
(***************************************************************************)
Fail == [ok |-> FALSE, v |-> Undefined, i |-> 0]

Okay(v, i) == [ok |-> TRUE, v |-> v, i |-> i]

RECURSIVE ScanString(_, _, _)
ScanString(s, i, acc) ==
    LET c == Ch(s, i) IN
    IF c = "" \/ c = "\n" THEN Fail
    ELSE IF c = "\"" THEN Okay(acc, i + 1)
    ELSE IF c = "\\"
         THEN LET e == Ch(s, i + 1) IN
              IF e = "n" THEN ScanString(s, i + 2, acc \o "\n")
              ELSE IF e = "\"" \/ e = "\\" THEN ScanString(s, i + 2, acc \o e)
              ELSE Fail
    ELSE ScanString(s, i + 1, acc \o c)

RECURSIVE ScanNumber(_, _, _)
ScanNumber(s, i, acc) ==
    IF IsDigit(Ch(s, i)) THEN ScanNumber(s, i + 1, 10 * acc + DigitVal(Ch(s, i)))
    ELSE Okay(Num(acc), i)

RECURSIVE ParseValue(_, _)
RECURSIVE ParseElements(_, _, _)
RECURSIVE ElementsAfter(_, _, _)
RECURSIVE ParseMembers(_, _, _)
RECURSIVE MembersAfterKey(_, _, _)
RECURSIVE MembersAfterValue(_, _, _, _)

\* A string literal read by ScanString, as a value.
StringValue(r) == IF r.ok THEN Okay(Str(r.v), r.i) ELSE Fail

ParseValue(s, i) ==
    LET c == Ch(s, i) IN
    IF c = "\"" THEN StringValue(ScanString(s, i + 1, ""))
    ELSE IF c = "{"
    THEN IF Ch(s, i + 1) = "}" THEN Okay(Obj(<< >>), i + 2)
         ELSE ParseMembers(s, i + 1, Obj(<< >>))
    ELSE IF c = "["
    THEN IF Ch(s, i + 1) = "]" THEN Okay(Arr(<< >>), i + 2)
         ELSE ParseElements(s, i + 1, << >>)
    ELSE IF IsDigit(c)
    THEN IF c = "0" /\ IsDigit(Ch(s, i + 1)) THEN Fail
         ELSE ScanNumber(s, i, 0)
    ELSE IF Slice(s, i, i + 3) = "null" THEN Okay(Null, i + 4)
    ELSE IF Slice(s, i, i + 3) = "true" THEN Okay(Bool(TRUE), i + 4)
    ELSE IF Slice(s, i, i + 4) = "false" THEN Okay(Bool(FALSE), i + 5)
    ELSE Fail

\* The elements of an array, from the first character of an element.
ParseElements(s, i, acc) == ElementsAfter(s, acc, ParseValue(s, i))

\* The same, the element r read.
ElementsAfter(s, acc, r) ==
    IF ~r.ok THEN Fail
    ELSE IF Ch(s, r.i) = "," THEN ParseElements(s, r.i + 1, Append(acc, r.v))
    ELSE IF Ch(s, r.i) = "]" THEN Okay(Arr(Append(acc, r.v)), r.i + 1)
    ELSE Fail

\* The members of an object, from the quote of a key.  A repeated key
\* keeps its first place and takes the last value.
ParseMembers(s, i, acc) ==
    IF Ch(s, i) # "\"" THEN Fail
    ELSE MembersAfterKey(s, acc, ScanString(s, i + 1, ""))

\* The same, the key k read.
MembersAfterKey(s, acc, k) ==
    IF ~k.ok \/ Ch(s, k.i) # ":" THEN Fail
    ELSE MembersAfterValue(s, acc, k.v, ParseValue(s, k.i + 1))

\* The same, the key and its value r read.
MembersAfterValue(s, acc, key, r) ==
    IF ~r.ok THEN Fail
    ELSE IF Ch(s, r.i) = "," THEN ParseMembers(s, r.i + 1, SetKey(acc, key, r.v))
    ELSE IF Ch(s, r.i) = "}" THEN Okay(SetKey(acc, key, r.v), r.i + 1)
    ELSE Fail

\* A value read by ParseValue is the result when it ends the text.
WholeText(s, r) == IF r.ok /\ r.i = Len(s) + 1 THEN r ELSE Fail

\* JSON.parse(s): ok is FALSE where JSON.parse throws a SyntaxError.
JSONparse(s) == WholeText(s, ParseValue(s, 1))

(***************************************************************************)
(* JSON.stringify.                                                         *)
(***************************************************************************)
RECURSIVE Quote(_)
Quote(s) ==
    IF s = "" THEN ""
    ELSE LET c == Ch(s, 1) IN
         (IF c = "\n" THEN "\\n"
          ELSE IF c = "\"" THEN "\\\""
          ELSE IF c = "\\" THEN "\\\\"
          ELSE c) \o Quote(Rest(s, 2))

RECURSIVE JSONstringify(_)
RECURSIVE JoinElements(_, _)
RECURSIVE JoinMembers(_, _)

\* An undefined or function-valued array element is written as null.
JoinElements(a, i) ==
    IF i > Len(a) THEN ""
    ELSE (IF i > 1 THEN "," ELSE "")
         \o (IF a[i].t \in {"undefined", "function"} THEN "null" ELSE JSONstringify(a[i]))
         \o JoinElements(a, i + 1)

\* An undefined or function-valued property is left out.
JoinMembers(m, first) ==
    IF m = << >> THEN ""
    ELSE IF Head(m).v.t \in {"undefined", "function"} THEN JoinMembers(Tail(m), first)
    ELSE (IF first THEN "" ELSE ",")
         \o "\"" \o Quote(Head(m).k) \o "\":" \o JSONstringify(Head(m).v)
         \o JoinMembers(Tail(m), FALSE)

JSONstringify(v) ==
    CASE v.t = "str" -> "\"" \o Quote(v.s) \o "\""
      [] v.t = "num" -> NatToStr(v.n)
      [] v.t = "bool" -> IF v.b THEN "true" ELSE "false"
      [] v.t = "null" -> "null"
      [] v.t = "arr" -> "[" \o JoinElements(v.a, 1) \o "]"
      [] v.t = "obj" -> "{" \o JoinMembers(v.m, TRUE) \o "}"

(***************************************************************************)
(* String helpers of the streaming handler.                                *)
(***************************************************************************)
\* The model's bytes are ASCII characters, written as themselves, and the
\* two bytes of one two-byte character: Utf8Lead stands for its first
\* byte (0xC3), Utf8Cont for its second (0xA9).  In a JavaScript string
\* the character is written as the pair, and Replacement stands for
\* U+FFFD.
Utf8Lead == "^"

Utf8Cont == "~"

Replacement == "?"

\* The index of the first byte of a two-byte character in bytes, 0 when
\* all are ASCII.
FirstNonAscii(bytes) ==
    LET at == {i \in 1..Len(bytes) : SubSeq(bytes, i, i) \in { Utf8Lead, Utf8Cont }} IN
    IF at = {} THEN 0 ELSE CHOOSE i \in at : \A k \in at : i <= k

RECURSIVE Utf8Decode(_, _)
\* Buffer.prototype.toString('utf8'), i being FirstNonAscii(bytes): a first
\* byte without its second, and a second byte without its first, decode
\* to U+FFFD.
Utf8Decode(bytes, i) ==
    IF i = 0 THEN bytes
    ELSE IF Ch(bytes, i) = Utf8Lead /\ Ch(bytes, i + 1) = Utf8Cont
    THEN SubSeq(bytes, 1, i + 1)
         \o Utf8Decode(Rest(bytes, i + 2), FirstNonAscii(Rest(bytes, i + 2)))
    ELSE SubSeq(bytes, 1, i - 1) \o Replacement
         \o Utf8Decode(Rest(bytes, i + 1), FirstNonAscii(Rest(bytes, i + 1)))

\* chunk.toString()
ChunkToString(chunk) == Utf8Decode(chunk, FirstNonAscii(chunk))

\* The index of the first "\n" of s at or after i, 0 when there is none.
IndexOfNL(s, i) ==
    LET nl == {j \in i..Len(s) : SubSeq(s, j, j) = "\n"} IN
    IF nl = {} THEN 0 ELSE CHOOSE j \in nl : \A k \in nl : j <= k

RECURSIVE SplitNL(_)
\* s.split('\n'): at least one element, the last one the text after the
\* last newline.
SplitNL(s) ==
    LET n == IndexOfNL(s, 1) IN
    IF n = 0 THEN <<s>>
    ELSE <<SubSeq(s, 1, n - 1)>> \o SplitNL(Rest(s, n + 1))

RECURSIVE ToStr(_)
RECURSIVE JoinToStr(_, _)
\* ToString of an array: its elements joined by commas, null and
\* undefined as the empty string.
JoinToStr(a, i) ==
    IF i > Len(a) THEN ""
    ELSE (IF i > 1 THEN "," ELSE "")
         \o (IF a[i].t \in {"undefined", "null"} THEN "" ELSE ToStr(a[i]))
         \o JoinToStr(a, i + 1)

\* What `'text' + v` appends for v.
ToStr(v) ==
    CASE v.t = "str" -> v.s
      [] v.t = "num" -> NatToStr(v.n)
      [] v.t = "bool" -> IF v.b THEN "true" ELSE "false"
      [] v.t = "null" -> "null"
      [] v.t = "undefined" -> "undefined"
      [] v.t = "arr" -> JoinToStr(v.a, 1)
      [] v.t = "obj" -> "[object Object]"

(***************************************************************************)
(* handleNvidiaCompletion, the streaming branch: the 'data' handler.       *)
(***************************************************************************)
THINK_OPEN == "<think>\n"

THINK_CLOSE == "\n</think>\n\n"

\* parsed.choices?.[0]?.delta, for parsed neither null nor undefined.
Choice0Delta(parsed) ==
    LET c0 == First(Get(parsed, "choices")) IN
    IF c0.t \in {"undefined", "null"} THEN Undefined ELSE Get(c0, "delta")

\* parsed with parsed.choices[0].delta replaced by d.
WithChoice0Delta(parsed, d) ==
    LET choices == Get(parsed, "choices") IN
    SetKey(parsed, "choices",
           Arr([choices.a EXCEPT ![1] = SetKey(choices.a[1], "delta", d)]))

\* ReasoningPart, every reasoning text opening a block of its own.
ReasoningPartReopens(reasoning, rs) ==
    IF Truthy(reasoning)
    THEN [combined |-> THINK_OPEN \o ToStr(reasoning), rs |-> TRUE]
    ELSE [combined |-> "", rs |-> rs]

\* server.js:192-198: [combined, rs] after the reasoning text.
ReasoningPart(reasoning, rs) ==
    IF Truthy(reasoning) /\ ~rs
    THEN [combined |-> THINK_OPEN \o ToStr(reasoning), rs |-> TRUE]
    ELSE IF Truthy(reasoning) THEN [combined |-> ToStr(reasoning), rs |-> rs]
    ELSE [combined |-> "", rs |-> rs]

\* ContentPart, the block left open once the answer has begun.
ContentPartKeepsOpen(st, content) ==
    IF Truthy(content) /\ st.rs
    THEN [combined |-> st.combined \o THINK_CLOSE \o ToStr(content), rs |-> st.rs]
    ELSE IF Truthy(content) THEN [combined |-> st.combined \o ToStr(content), rs |-> st.rs]
    ELSE st

\* server.js:200-205: [combined, rs] after the answer text.
ContentPart(st, content) ==
    IF Truthy(content) /\ st.rs
    THEN [combined |-> st.combined \o THINK_CLOSE \o ToStr(content), rs |-> FALSE]
    ELSE IF Truthy(content) THEN [combined |-> st.combined \o ToStr(content), rs |-> st.rs]
    ELSE st

\* server.js:207-210: [delta, rs], the delta as emitted.
CombinedDelta(delta, st) ==
    [delta |-> IF st.combined # ""
               THEN DeleteKey(SetKey(delta, "content", Str(st.combined)), "reasoning_content")
               ELSE delta,
     rs |-> st.rs]

\* The SHOW_REASONING branch: [delta, rs], the delta as emitted and the
\* flag afterwards.
ShowDelta(delta, rs) ==
    CombinedDelta(delta, ContentPart(ReasoningPart(Get(delta, "reasoning_content"), rs),
                                     Get(delta, "content")))

\* HideDelta, giving content no value when the delta has none.
HideDeltaKeepsAbsent(delta, rs) == [delta |-> DeleteKey(delta, "reasoning_content"), rs |-> rs]

\* The branch taken when SHOW_REASONING is off.
HideDelta(delta, rs) ==
    [delta |-> DeleteKey(SetKey(delta, "content", OrElse(Get(delta, "content"), Str(""))),
                         "reasoning_content"),
     rs |-> rs]

\* parsed with its first delta replaced by the one of r.
Replaced(parsed, r) == [parsed |-> WithChoice0Delta(parsed, r.delta), rs |-> r.rs]

\* server.js:186-216, delta being parsed.choices?.[0]?.delta.
TransformDelta(parsed, delta, rs, show) ==
    IF Truthy(delta)
    THEN Replaced(parsed, IF show THEN ShowDelta(delta, rs) ELSE HideDelta(delta, rs))
    ELSE [parsed |-> parsed, rs |-> rs]

\* The body of the try block: the parsed event as emitted and the flag.
TransformParsed(parsed, rs, show) == TransformDelta(parsed, Choice0Delta(parsed), rs, show)

\* server.js:218
WriteParsed(r) == [w |-> <<"data: " \o JSONstringify(r.parsed) \o "\n\n">>, rs |-> r.rs]

\* WriteRaw, the think-block given up on a line forwarded raw.
WriteRawResetsFlag(line, rs) == [w |-> <<"data: " \o line \o "\n\n">>, rs |-> FALSE]

\* server.js:221 and 225
WriteRaw(line, rs) == [w |-> <<"data: " \o line \o "\n\n">>, rs |-> rs]

\* The try block and its catch, p being the result of JSON.parse: the
\* catch is taken when JSON.parse throws, and when parsed is null and
\* parsed.choices throws.
HandlePayload(line, p, rs, show) ==
    IF ~p.ok \/ p.v.t = "null" THEN WriteRaw(line, rs)
    ELSE WriteParsed(TransformParsed(p.v, rs, show))

\* One iteration of lines.forEach: [w, rs], the strings written (none or
\* one) and the flag afterwards.
HandleLine(line, rs, show) ==
    IF line = "" THEN [w |-> << >>, rs |-> rs]
    ELSE IF StartsWith(line, "data: ")
    THEN IF Rest(line, 7) = "[DONE]" THEN [w |-> <<"data: [DONE]\n\n">>, rs |-> rs]
         ELSE HandlePayload(line, JSONparse(Rest(line, 7)), rs, show)
    ELSE WriteRaw(line, rs)

(***************************************************************************)
(* The upstream lines of the model.                                        *)
(***************************************************************************)
LineR == "data: {\"choices\":[{\"delta\":{\"reasoning_content\":\"ab\"}}]}"

LineC == "data: {\"choices\":[{\"delta\":{\"content\":\"x\"}}]}"

LineBoth == "data: {\"choices\":[{\"delta\":{\"reasoning_content\":\"r\",\"content\":\"z\"}}]}"

LineEmptyReasoning == "data: {\"choices\":[{\"delta\":{\"reasoning_content\":\"\"}}]}"

LineRole == "data: {\"choices\":[{\"delta\":{\"role\":\"assistant\"}}]}"

LineTwoChoices == "data: {\"choices\":[{\"delta\":{\"content\":\"x\"}},{\"delta\":{\"reasoning_content\":\"q\"}}]}"

LineDone == "data: [DONE]"

LineNotJson == "data: not-json"

LineComment == ": ping"

\* The sentinel's payload on a line without the marker.
LineBareDone == "[DONE]"

\* An answer of one two-byte character.
LineUtf8 == "data: {\"choices\":[{\"delta\":{\"content\":\"^~\"}}]}"

Lines ==
    { LineR, LineC, LineBoth, LineEmptyReasoning, LineRole, LineTwoChoices,
      LineDone, LineNotJson, LineComment, LineBareDone, LineUtf8, "" }

\* HandleLine on the lines above, computed once.
HandleLineTable ==
    [l \in Lines |-> [rs \in BOOLEAN |-> [show \in BOOLEAN |-> HandleLine(l, rs, show)]]]

\* HandleLine, read from the table for the lines it holds.
HandleLineOf(line, rs, show) ==
    IF line \in Lines THEN HandleLineTable[line][rs][show] ELSE HandleLine(line, rs, show)

\* What a line adds to the strings written and does to the flag.
AfterLine(acc, r) == [w |-> acc.w \o r.w, rs |-> r.rs]

RECURSIVE ForEachLine(_, _, _, _)
\* lines.forEach from line i on, acc being [w, rs] so far.
ForEachLine(lines, i, acc, show) ==
    IF i > Len(lines) THEN acc
    ELSE ForEachLine(lines, i + 1, AfterLine(acc, HandleLineOf(lines[i], acc.rs, show)), show)

\* server.js:170-172, all being buffer.split('\n'): the last element is
\* the new buffer, the others are the lines.
OnLines(all, rs, show) ==
    [buffer |-> all[Len(all)],
     r |-> ForEachLine(SubSeq(all, 1, Len(all) - 1), 1, [w |-> << >>, rs |-> rs], show)]

\* The 'data' handler on one chunk: [buffer, r], r being [w, rs].
OnData(buf, chunk, rs, show) == OnLines(SplitNL(buf \o ChunkToString(chunk)), rs, show)

(***************************************************************************)
(* handleNvidiaCompletion, the non-streaming branch (server.js:239-270).   *)
(* The id and created fields, which hold the time, are left out.           *)
(***************************************************************************)
\* OpenaiChoice, wrapping whenever the reasoning field is there, an empty
\* one included.
OpenaiChoiceAnyReasoning(choice, show) ==
    LET msg == OrElse(Get(choice, "message"), Obj(<< >>))
        text == OrElse(Get(msg, "content"), Str(""))
        reasoning == Get(msg, "reasoning_content")
        content == IF show /\ reasoning.t # "undefined"
                   THEN Str(THINK_OPEN \o ToStr(reasoning) \o THINK_CLOSE \o ToStr(text))
                   ELSE text
    IN Obj(<< [k |-> "index", v |-> Coalesce(Get(choice, "index"), Num(0))],
              [k |-> "message",
               v |-> Obj(<< [k |-> "role", v |-> OrElse(Get(msg, "role"), Str("assistant"))],
                            [k |-> "content", v |-> content] >>)],
              [k |-> "finish_reason", v |-> OrElse(Get(choice, "finish_reason"), Null)] >>)

\* The callback of choices.map.
OpenaiChoice(choice, show) ==
    LET msg == OrElse(Get(choice, "message"), Obj(<< >>))
        text == OrElse(Get(msg, "content"), Str(""))
        reasoning == Get(msg, "reasoning_content")
        content == IF show /\ Truthy(reasoning)
                   THEN Str(THINK_OPEN \o ToStr(reasoning) \o THINK_CLOSE \o ToStr(text))
                   ELSE text
    IN Obj(<< [k |-> "index", v |-> Coalesce(Get(choice, "index"), Num(0))],
              [k |-> "message",
               v |-> Obj(<< [k |-> "role", v |-> OrElse(Get(msg, "role"), Str("assistant"))],
                            [k |-> "content", v |-> content] >>)],
              [k |-> "finish_reason", v |-> OrElse(Get(choice, "finish_reason"), Null)] >>)

NoUsage ==
    Obj(<< [k |-> "prompt_tokens", v |-> Num(0)],
           [k |-> "completion_tokens", v |-> Num(0)],
           [k |-> "total_tokens", v |-> Num(0)] >>)

\* openaiResponse, from response.data, the client's model and nimModel.
OpenaiResponse(data, model, nim, show) ==
    LET nimData == OrElse(data, Obj(<< >>))
        given == Get(nimData, "choices")
        choices == IF given.t = "arr" THEN given.a ELSE << >>
    IN Obj(<< [k |-> "object", v |-> Str("chat.completion")],
              [k |-> "model", v |-> OrElse(model, nim)],
              [k |-> "choices",
               v |-> Arr([i \in 1..Len(choices) |-> OpenaiChoice(choices[i], show)])],
              [k |-> "usage", v |-> OrElse(Get(nimData, "usage"), NoUsage)] >>)

(***************************************************************************)
(* Model resolution.                                                       *)
(***************************************************************************)
StrMap(pairs) == Obj([i \in 1..Len(pairs) |-> [k |-> pairs[i][1], v |-> Str(pairs[i][2])]])

NVIDIA_MODEL_MAPPING ==
    StrMap(<< <<"gpt-3.5-turbo", "nvidia/llama-3.1-nemotron-ultra-253b-v1">>,
              <<"gpt-4", "qwen/qwen3-coder-480b-a35b-instruct">>,
              <<"kimi-k2", "moonshotai/kimi-k2-instruct-0905">>,
              <<"deepseek-v3.1", "deepseek-ai/deepseek-v3.1">>,
              <<"claude-3-opus", "openai/gpt-oss-120b">>,
              <<"claude-3-sonnet", "openai/gpt-oss-20b">>,
              <<"gemini-pro", "qwen/qwen3-next-80b-a3b-thinking">>,
              <<"kimi-k2-thinking", "moonshotai/kimi-k2-thinking">>,
              <<"deepseek-v3.1-terminus", "deepseek-ai/deepseek-v3.1-terminus">>,
              <<"deepseek-v3.2", "deepseek-ai/deepseek-v3.2">> >>)

EHUB_MODEL_MAPPING ==
    StrMap(<< <<"deepseek-v3.1-terminus", "deepseek-v3.1-terminus:free">>,
              <<"deepseek-v3.2", "deepseek-v3.2:free">>,
              <<"deepseek-r1-0528", "deepseek-r1-0528:free">>,
              <<"gemini-2.5-flash", "gemini-2.5-flash:free">>,
              <<"gemini-2.5-pro", "gemini-2.5-pro:free">>,
              <<"minimax-m2", "minimax-m2:free">>,
              <<"kimi-k2", "kimi-k2-instruct-0905:free">>,
              <<"kimi-k2-thinking", "kimi-k2-thinking:free">> >>)

\* The methods every object literal inherits from Object.prototype.
ObjectPrototypeMethods ==
    { "constructor", "toString", "toLocaleString", "valueOf", "hasOwnProperty",
      "isPrototypeOf", "propertyIsEnumerable", "__defineGetter__", "__defineSetter__",
      "__lookupGetter__", "__lookupSetter__" }

\* mapping[model]: the key is the model as a string; an own property
\* first, then what Object.prototype gives: its methods, and itself (an
\* object without enumerable properties) for __proto__.
Lookup(mapping, model) ==
    LET key == ToStr(model) IN
    IF HasKey(mapping, key) THEN Get(mapping, key)
    ELSE IF key \in ObjectPrototypeMethods THEN Function
    ELSE IF key = "__proto__" THEN Obj(<< >>)
    ELSE Undefined

UpperCase == "ABCDEFGHIJKLMNOPQRSTUVWXYZ"

LowerCase == "abcdefghijklmnopqrstuvwxyz"

LowerChar(c) ==
    IF \E i \in 1..26 : SubSeq(UpperCase, i, i) = c
    THEN LET i == CHOOSE i \in 1..26 : SubSeq(UpperCase, i, i) = c IN SubSeq(LowerCase, i, i)
    ELSE c

RECURSIVE ToLowerCase(_)
ToLowerCase(s) == IF s = "" THEN "" ELSE LowerChar(Ch(s, 1)) \o ToLowerCase(Rest(s, 2))

\* s.includes(p)
Includes(s, p) == \E i \in 1..(Len(s) - Len(p) + 1) : SubSeq(s, i, i + Len(p) - 1) = p

FALLBACK_LARGE == "meta/llama-3.1-405b-instruct"

FALLBACK_MID == "meta/llama-3.1-70b-instruct"

FALLBACK_SMALL == "meta/llama-3.1-8b-instruct"

\* server.js:125-131
FallbackFor(modelLower) ==
    IF Includes(modelLower, "gpt-4") \/ Includes(modelLower, "claude-opus")
       \/ Includes(modelLower, "405b")
    THEN FALLBACK_LARGE
    ELSE IF Includes(modelLower, "claude") \/ Includes(modelLower, "gemini")
            \/ Includes(modelLower, "70b")
    THEN FALLBACK_MID
    ELSE FALLBACK_SMALL

\* server.js:124
HeuristicFallback(model) == FallbackFor(ToLowerCase(ToStr(OrElse(model, Str("")))))

\* server.js:103: whether the model is probed.
NeedsProbe(model) == ~Truthy(Lookup(NVIDIA_MODEL_MAPPING, model)) /\ model.t = "str"

\* AfterProbe, every reply validateStatus accepts taken for a success.
AfterProbeAnyReply(nim, model, outcome) == IF outcome \in { "2xx", "4xx" } THEN model ELSE nim

\* server.js:115-117: nimModel after the probe; only a 2xx reply sets it.
AfterProbe(nim, model, outcome) == IF outcome = "2xx" THEN model ELSE nim

\* server.js:123-132
WithFallback(nim, model) == IF ~Truthy(nim) THEN Str(HeuristicFallback(model)) ELSE nim

\* server.js:292
EhubModel(model) == OrElse(Lookup(EHUB_MODEL_MAPPING, model), model)

(***************************************************************************)
(* The upstream request bodies.  temperature and max_tokens, which are     *)
(* copied or defaulted and read by nothing else, are left out.             *)
(***************************************************************************)
\* !!v
ToBool(v) == Bool(Truthy(v))

\* NimRequest, the thinking parameter passed whatever the toggle.
NimRequestAlwaysThinking(nim, messages, stream, thinking) ==
    Obj(<< [k |-> "model", v |-> nim],
           [k |-> "messages", v |-> OrElse(messages, Arr(<< >>))],
           [k |-> "chat_template_kwargs",
            v |-> Obj(<< [k |-> "thinking", v |-> Bool(TRUE)] >>)],
           [k |-> "stream", v |-> ToBool(stream)] >>)

\* nimRequest, server.js:134-142
NimRequest(nim, messages, stream, thinking) ==
    Obj(<< [k |-> "model", v |-> nim],
           [k |-> "messages", v |-> OrElse(messages, Arr(<< >>))] >>
        \o (IF thinking
            THEN << [k |-> "chat_template_kwargs",
                     v |-> Obj(<< [k |-> "thinking", v |-> Bool(TRUE)] >>)] >>
            ELSE << >>)
        \o << [k |-> "stream", v |-> ToBool(stream)] >>)

\* ehubRequest, server.js:294-300
EhubRequest(model, messages, stream) ==
    Obj(<< [k |-> "model", v |-> model],
           [k |-> "messages", v |-> OrElse(messages, Arr(<< >>))],
           [k |-> "stream", v |-> ToBool(stream)] >>)

\* ErrorStatus, the upstream status ignored.
ErrorStatusAlways500(err) == Num(500)

\* The catch blocks, server.js:273-283 and 327-337: the status and the
\* document of the error response.  An error carries response (undefined
\* when no reply came) and message.
ErrorStatus(err) ==
    LET st == IF err.response.t = "obj" THEN Get(err.response, "status") ELSE Undefined
    IN OrElse(st, Num(500))

ErrorResponse(err, fallbackMessage) ==
    LET data == IF err.response.t = "obj" THEN Get(err.response, "data") ELSE Undefined
        upstreamError == IF data.t = "obj" THEN Get(data, "error") ELSE Undefined
        status == ErrorStatus(err)
    IN [status |-> status.n,
        doc |-> Obj(<< [k |-> "error",
                        v |-> Obj(<< [k |-> "message",
                                      v |-> OrElse(upstreamError,
                                                   OrElse(err.message, Str(fallbackMessage)))],
                                     [k |-> "type", v |-> Str("provider_error")],
                                     [k |-> "code", v |-> status] >>)] >>)]

(***************************************************************************)
(* The inputs of the model: client requests, upstream replies, upstream    *)
(* streams.                                                                *)
(***************************************************************************)
\* The longest upstream stream of the streaming specification, in lines.
MaxLines == 2

\* A chunk ends at a multiple of CutStride, just before or just after a
\* newline, or at the end of the text.
CutStride == 7

\* The most reasoning events, and the most answer events, of a
\* reasoning-then-answer stream.
MaxRepeat == 2

\* The most choices of a non-streaming upstream reply.
MaxChoices == 2

RECURSIVE JoinLines(_)
\* Each line followed by its newline.
JoinLines(ls) == IF ls = << >> THEN "" ELSE Head(ls) \o "\n" \o JoinLines(Tail(ls))

\* i reasoning events, then j answer events.
ThinkThenAnswer(i, j) ==
    JoinLines([k \in 1..(i + j) |-> IF k <= i THEN LineR ELSE LineC])

Streams ==
    { JoinLines(ls) : ls \in UNION { [1..n -> Lines] : n \in 0..MaxLines } }
    \cup { ThinkThenAnswer(i, j) : i, j \in 1..MaxRepeat }

\* The streams a streaming request of the request specification is
\* answered with, on /nvidia and on /ehub.
NimStreams == { JoinLines(<<LineR, LineC, LineDone>>) }

EhubStreams == { JoinLines(<<LineDone>>) }

\* Whether a chunk may end after byte p of s.
IsCut(s, p) ==
    \/ p = Len(s)
    \/ p % CutStride = 0
    \/ Ch(s, p) = "\n"
    \/ Ch(s, p + 1) = "\n"
    \/ Ch(s, p) = Utf8Lead

Message(role, content) ==
    Obj(<< [k |-> "role", v |-> Str(role)], [k |-> "content", v |-> Str(content)] >>)

DefaultMessages == Arr(<< Message("user", "hello") >>)

ModelValues ==
    { Undefined, Str(""), Num(5), Str("gpt-4"), Str("kimi-k2"), Str("deepseek-r1-0528"),
      Str("totally-unknown-model"), Str("GPT-4o"), Str("my-claude"), Str("llama-70B"),
      Str("gemini-405b"), Str("constructor") }

MessageValues ==
    { Undefined, Null, Str("hello"), Arr(<< >>), DefaultMessages,
      Arr(<< Message("system", "be brief"), Message("user", "/think why?") >>),
      Arr(<< Message("user", "/think a /think"), Message("user", "b") >>) }

StreamValues == { Undefined, Bool(FALSE), Bool(TRUE) }

Requests ==
    { [model |-> m, messages |-> DefaultMessages, stream |-> s] :
          m \in ModelValues, s \in StreamValues }
    \cup { [model |-> Str("gpt-4"), messages |-> ms, stream |-> s] :
              ms \in MessageValues, s \in StreamValues }

ProbeOutcomes == { "2xx", "4xx", "5xx", "network error" }

\* The errors axios.post rejects with: no reply at all, or a reply whose
\* status validateStatus refuses (500 and above).  The data of a reply to
\* a streaming request is a stream, which has no error property.
MainErrors(streaming) ==
    { [response |-> Undefined, message |-> Str("socket hang up")],
      [response |-> Obj(<< [k |-> "status", v |-> Num(500)],
                           [k |-> "data",
                            v |-> IF streaming THEN Obj(<< >>)
                                  ELSE Obj(<< [k |-> "error", v |-> Str("boom")] >>)] >>),
       message |-> Str("Request failed with status code 500")],
      [response |-> Obj(<< [k |-> "status", v |-> Num(503)],
                           [k |-> "data", v |-> IF streaming THEN Obj(<< >>) ELSE Str("")] >>),
       message |-> Str("Request failed with status code 503")] }

Choice(fields, message) == Obj(fields \o << [k |-> "message", v |-> Obj(message)] >>)

ChoiceValues ==
    { Choice(<< [k |-> "index", v |-> Num(0)], [k |-> "finish_reason", v |-> Str("stop")] >>,
             << [k |-> "role", v |-> Str("assistant")], [k |-> "content", v |-> Str("42")],
                [k |-> "reasoning_content", v |-> Str("because")] >>),
      Choice(<< [k |-> "index", v |-> Num(1)] >>,
             << [k |-> "role", v |-> Str("assistant")], [k |-> "content", v |-> Str("42")] >>),
      Choice(<< >>, << [k |-> "content", v |-> Str("ok")],
                       [k |-> "reasoning_content", v |-> Str("")] >>),
      Choice(<< >>, << [k |-> "reasoning_content", v |-> Str("why")] >>),
      Obj(<< [k |-> "finish_reason", v |-> Str("length")] >>) }

\* response.data of a reply with a status below 500 to a request that
\* does not stream.
Bodies ==
    { Obj(<< [k |-> "choices", v |-> Arr(cs)] >>) :
          cs \in UNION { [1..n -> ChoiceValues] : n \in 0..MaxChoices } }
    \cup { Undefined, Obj(<< [k |-> "error", v |-> Str("model not found")] >>) }

(***************************************************************************)
(* The state machine.                                                      *)
(***************************************************************************)
vars ==
    << SHOW_REASONING, ENABLE_THINKING_MODE, provider, body, pc, probe, probes,
       nimModel, posts, reply, responses, upstream, pos, received, buffer,
       reasoningStarted, out, ended, client, late, other >>

config == << SHOW_REASONING, ENABLE_THINKING_MODE, provider, body >>

request == << probe, probes, nimModel, posts, reply, responses >>

streaming ==
    << upstream, pos, received, buffer, reasoningStarted, out, ended, client, late, other >>

NoReply == [kind |-> "none"]

\* The locals of a streaming response (server.js:162-165) before its
\* first chunk, s being the bytes its upstream stream will carry.
Response(s, state) ==
    [upstream |-> s, pos |-> 0, received |-> "", buffer |-> "", reasoningStarted |-> FALSE,
     out |-> << >>, ended |-> state]

NoOther == Response("", "none")

\* A request has arrived at app.post (server.js:343).
Init ==
    /\ SHOW_REASONING \in BOOLEAN
    /\ ENABLE_THINKING_MODE \in BOOLEAN
    /\ provider \in { "nvidia", "ehub" }
    /\ body \in Requests
    /\ pc = "start"
    /\ probe = "none"
    /\ probes = << >>
    /\ nimModel = Undefined
    /\ posts = << >>
    /\ reply = NoReply
    /\ responses = << >>
    /\ upstream = ""
    /\ pos = 0
    /\ received = ""
    /\ buffer = ""
    /\ reasoningStarted = FALSE
    /\ out = << >>
    /\ ended = "open"
    /\ client = "connected"
    /\ late = FALSE
    /\ other = NoOther

\* server.js:123-145: the fallback, nimRequest, and the main request.
Posted(resolved) ==
    /\ nimModel' = resolved
    /\ posts' = Append(posts, NimRequest(resolved, body.messages, body.stream,
                                         ENABLE_THINKING_MODE))
    /\ pc' = "main"

PostNim(nim) == Posted(WithFallback(nim, body.model))

\* handleNvidiaCompletion up to its first await: the probe (server.js:106)
\* or the main request (server.js:145).
NvidiaStart ==
    /\ pc = "start"
    /\ provider = "nvidia"
    /\ IF NeedsProbe(body.model)
       THEN /\ nimModel' = Lookup(NVIDIA_MODEL_MAPPING, body.model)
            /\ probes' = Append(probes, body.model)
            /\ pc' = "probe"
            /\ UNCHANGED posts
       ELSE /\ PostNim(Lookup(NVIDIA_MODEL_MAPPING, body.model))
            /\ UNCHANGED probes
    /\ UNCHANGED << config, probe, reply, responses, streaming >>

\* The probe is over (server.js:114-121), up to the main request.
NvidiaProbeReturn(outcome) ==
    /\ pc = "probe"
    /\ probe' = outcome
    /\ PostNim(AfterProbe(nimModel, body.model, outcome))
    /\ UNCHANGED << config, probes, reply, responses, streaming >>

\* The main request is rejected: the catch block, server.js:273-283.
NvidiaMainError(err) ==
    /\ pc = "main"
    /\ provider = "nvidia"
    /\ reply' = [kind |-> "error", err |-> err]
    /\ responses' = Append(responses, ErrorResponse(err, "NIM provider error"))
    /\ pc' = "done"
    /\ UNCHANGED << config, probe, probes, nimModel, posts, streaming >>

\* A reply to a streaming request: server.js:154-236 attaches the handlers.
NvidiaMainStream(s) ==
    /\ pc = "main"
    /\ provider = "nvidia"
    /\ Truthy(body.stream)
    /\ pc' = "streaming"
    /\ reply' = [kind |-> "stream"]
    /\ upstream' = s
    /\ buffer' = ""
    /\ reasoningStarted' = FALSE
    /\ UNCHANGED << config, probe, probes, nimModel, posts, responses, pos, received, out,
                    ended, client, late, other >>

\* A reply to a request that does not stream: server.js:239-270.
NvidiaMainJson(data) ==
    /\ pc = "main"
    /\ provider = "nvidia"
    /\ ~Truthy(body.stream)
    /\ reply' = [kind |-> "json", data |-> data]
    /\ responses' = Append(responses,
                           [status |-> 200,
                            doc |-> OpenaiResponse(data, body.model, nimModel,
                                                   SHOW_REASONING)])
    /\ pc' = "done"
    /\ UNCHANGED << config, probe, probes, nimModel, posts, streaming >>

\* handleEhubCompletion up to its await (server.js:290-303).
EhubStart ==
    /\ pc = "start"
    /\ provider = "ehub"
    /\ nimModel' = EhubModel(body.model)
    /\ posts' = Append(posts, EhubRequest(EhubModel(body.model), body.messages, body.stream))
    /\ pc' = "main"
    /\ UNCHANGED << config, probe, probes, reply, responses, streaming >>

\* server.js:327-337
EhubMainError(err) ==
    /\ pc = "main"
    /\ provider = "ehub"
    /\ reply' = [kind |-> "error", err |-> err]
    /\ responses' = Append(responses, ErrorResponse(err, "ElectronHub provider error"))
    /\ pc' = "done"
    /\ UNCHANGED << config, probe, probes, nimModel, posts, streaming >>

\* server.js:312-323: the reply is piped to the client.
EhubMainStream(s) ==
    /\ pc = "main"
    /\ provider = "ehub"
    /\ Truthy(body.stream)
    /\ pc' = "piping"
    /\ reply' = [kind |-> "stream"]
    /\ upstream' = s
    /\ UNCHANGED << config, probe, probes, nimModel, posts, responses, pos, received, buffer,
                    reasoningStarted, out, ended, client, late, other >>

\* server.js:325
EhubMainJson(data) ==
    /\ pc = "main"
    /\ provider = "ehub"
    /\ ~Truthy(body.stream)
    /\ reply' = [kind |-> "json", data |-> data]
    /\ responses' = Append(responses, [status |-> 200, doc |-> OrElse(data, Obj(<< >>))])
    /\ pc' = "done"
    /\ UNCHANGED << config, probe, probes, nimModel, posts, streaming >>

\* response.data.pipe(res): a chunk is written as it came.  pipe stops
\* reading its source once the destination has closed.
EhubPipeData(n) ==
    /\ pc = "piping"
    /\ ended = "open"
    /\ client = "connected"
    /\ pos + n <= Len(upstream)
    /\ IsCut(upstream, pos + n)
    /\ out' = Append(out, SubSeq(upstream, pos + 1, pos + n))
    /\ pos' = pos + n
    /\ UNCHANGED << config, pc, request, upstream, received, buffer, reasoningStarted, ended,
                    client, late, other >>

\* The state a call of the 'data' handler leaves.
Handled(d) ==
    /\ buffer' = d.buffer
    /\ reasoningStarted' = d.r.rs
    /\ out' = out \o d.r.w

\* streamData 'data' (server.js:167-228): the next n characters arrive as
\* one chunk.
StreamData(n) ==
    /\ pc = "streaming"
    /\ ended = "open"
    /\ pos + n <= Len(upstream)
    /\ IsCut(upstream, pos + n)
    /\ Handled(OnData(buffer, SubSeq(upstream, pos + 1, pos + n),
                       reasoningStarted, SHOW_REASONING))
    /\ pos' = pos + n
    /\ received' = received \o ChunkToString(SubSeq(upstream, pos + 1, pos + n))
    /\ late' = (late \/ client = "gone")
    /\ UNCHANGED << config, pc, request, upstream, ended, client, other >>

\* StreamEnd, the pending fragment handled as a last line before res.end().
StreamEndFlushesBuffer ==
    /\ pc \in { "streaming", "piping" }
    /\ ended = "open"
    /\ ended' = "end"
    /\ out' = out \o HandleLineOf(buffer, reasoningStarted, SHOW_REASONING).w
    /\ UNCHANGED << config, pc, request, upstream, pos, received, buffer, reasoningStarted,
                    client, late, other >>

\* streamData 'end' (server.js:230-232), and the end of a piped stream:
\* the upstream stream is over; res.end().  A pipe whose destination has
\* closed no longer reads its source, which then never ends.
StreamEnd ==
    /\ pc \in { "streaming", "piping" }
    /\ ended = "open"
    /\ pc = "piping" => client = "connected"
    /\ ended' = "end"
    /\ UNCHANGED << config, pc, request, upstream, pos, received, buffer, reasoningStarted,
                    out, client, late, other >>

\* StreamError, an open think-block closed before res.end().
StreamErrorClosesBlock ==
    /\ pc \in { "streaming", "piping" }
    /\ ended = "open"
    /\ ended' = "error"
    /\ out' = IF reasoningStarted
              THEN Append(out, "data: {\"choices\":[{\"delta\":{\"content\":\"\\n</think>\\n\\n\"}}]}\n\n")
              ELSE out
    /\ UNCHANGED << config, pc, request, upstream, pos, received, buffer, reasoningStarted,
                    client, late, other >>

\* 'error' (server.js:233-236 and 320-323): the upstream stream fails;
\* res.end().
StreamError ==
    /\ pc \in { "streaming", "piping" }
    /\ ended = "open"
    /\ ended' = "error"
    /\ UNCHANGED << config, pc, request, upstream, pos, received, buffer, reasoningStarted,
                    out, client, late, other >>

\* The client closes the connection while its response is streamed.  No
\* listener for it is registered on req or res (server.js:154-236,
\* 312-323), so no statement of the handlers runs.
ClientDisconnect ==
    /\ pc \in { "streaming", "piping" }
    /\ ended = "open"
    /\ client = "connected"
    /\ client' = "gone"
    /\ UNCHANGED << config, pc, request, upstream, pos, received, buffer, reasoningStarted,
                    out, ended, late, other >>

Next ==
    \/ NvidiaStart
    \/ \E outcome \in ProbeOutcomes : NvidiaProbeReturn(outcome)
    \/ \E err \in MainErrors(Truthy(body.stream)) : NvidiaMainError(err)
    \/ \E s \in NimStreams : NvidiaMainStream(s)
    \/ \E data \in Bodies : NvidiaMainJson(data)
    \/ EhubStart
    \/ \E err \in MainErrors(Truthy(body.stream)) : EhubMainError(err)
    \/ \E s \in EhubStreams : EhubMainStream(s)
    \/ \E data \in Bodies : EhubMainJson(data)
    \/ \E n \in 1..Len(upstream) : EhubPipeData(n)
    \/ \E n \in 1..Len(upstream) : StreamData(n)
    \/ StreamEnd
    \/ StreamError
    \/ ClientDisconnect

\* A request, from its arrival to the end of its response.
Spec == Init /\ [][Next]_vars

\* The streaming branch alone: the state at server.js:165 of a streaming
\* /nvidia request, the stream not yet read, for every upstream stream.
InitStream ==
    /\ SHOW_REASONING \in BOOLEAN
    /\ ENABLE_THINKING_MODE = FALSE
    /\ provider = "nvidia"
    /\ body = [model |-> Str("gpt-4"), messages |-> DefaultMessages, stream |-> Bool(TRUE)]
    /\ pc = "streaming"
    /\ probe = "none"
    /\ probes = << >>
    /\ nimModel = Lookup(NVIDIA_MODEL_MAPPING, Str("gpt-4"))
    /\ posts = << NimRequest(Lookup(NVIDIA_MODEL_MAPPING, Str("gpt-4")), DefaultMessages,
                             Bool(TRUE), FALSE) >>
    /\ reply = [kind |-> "stream"]
    /\ responses = << >>
    /\ upstream \in Streams
    /\ pos = 0
    /\ received = ""
    /\ buffer = ""
    /\ reasoningStarted = FALSE
    /\ out = << >>
    /\ ended = "open"
    /\ client = "connected"
    /\ late = FALSE
    /\ other = NoOther

NextStream ==
    \/ \E n \in 1..Len(upstream) : StreamData(n)
    \/ StreamEnd
    \/ StreamError
    \/ ClientDisconnect

SpecStream == InitStream /\ [][NextStream]_vars

(***************************************************************************)
(* Two streaming responses in flight.  Each call of                        *)
(* handleNvidiaCompletion declares its own streamData, buffer and          *)
(* reasoningStarted (server.js:162-165); the handlers registered by a call *)
(* close over that call's locals.  Node runs one handler at a time, so the *)
(* chunks of the two upstream streams are handled in some interleaving.    *)
(***************************************************************************)
\* The state a call of the second response's 'data' handler leaves, n
\* being the length of the chunk.
OtherHandled(d, n) ==
    other' = [other EXCEPT !.buffer = d.buffer,
                           !.reasoningStarted = d.r.rs,
                           !.out = other.out \o d.r.w,
                           !.pos = other.pos + n,
                           !.received = other.received
                                        \o ChunkToString(SubSeq(other.upstream, other.pos + 1,
                                                                other.pos + n))]

\* OtherData, reasoningStarted being one module-level flag for every
\* response.
OtherDataSharedFlag(n) ==
    /\ other.ended = "open"
    /\ other.pos + n <= Len(other.upstream)
    /\ IsCut(other.upstream, other.pos + n)
    /\ OtherHandled(OnData(other.buffer, SubSeq(other.upstream, other.pos + 1, other.pos + n),
                            reasoningStarted, SHOW_REASONING), n)
    /\ reasoningStarted' = other'.reasoningStarted
    /\ UNCHANGED << config, pc, request, upstream, pos, received, buffer, out, ended, client,
                    late >>

\* streamData 'data' (server.js:167-228) of the second response.
OtherData(n) ==
    /\ other.ended = "open"
    /\ other.pos + n <= Len(other.upstream)
    /\ IsCut(other.upstream, other.pos + n)
    /\ OtherHandled(OnData(other.buffer, SubSeq(other.upstream, other.pos + 1, other.pos + n),
                            other.reasoningStarted, SHOW_REASONING), n)
    /\ UNCHANGED << config, pc, request, upstream, pos, received, buffer, reasoningStarted,
                    out, ended, client, late >>

\* streamData 'end' (server.js:230-232) of the second response.
OtherEnd ==
    /\ other.ended = "open"
    /\ other' = [other EXCEPT !.ended = "end"]
    /\ UNCHANGED << config, pc, request, upstream, pos, received, buffer, reasoningStarted,
                    out, ended, client, late >>

\* The upstream streams of the two responses.
TwoStreams ==
    { JoinLines(<<LineR, LineC>>), JoinLines(<<LineC, LineR>>),
      JoinLines(<<LineBoth, LineDone>>) }

\* Two streaming /nvidia requests have both reached server.js:165.
InitTwo ==
    /\ SHOW_REASONING \in BOOLEAN
    /\ ENABLE_THINKING_MODE = FALSE
    /\ provider = "nvidia"
    /\ body = [model |-> Str("gpt-4"), messages |-> DefaultMessages, stream |-> Bool(TRUE)]
    /\ pc = "streaming"
    /\ probe = "none"
    /\ probes = << >>
    /\ nimModel = Lookup(NVIDIA_MODEL_MAPPING, Str("gpt-4"))
    /\ posts = << NimRequest(Lookup(NVIDIA_MODEL_MAPPING, Str("gpt-4")), DefaultMessages,
                             Bool(TRUE), FALSE) >>
    /\ reply = [kind |-> "stream"]
    /\ responses = << >>
    /\ upstream \in TwoStreams
    /\ pos = 0
    /\ received = ""
    /\ buffer = ""
    /\ reasoningStarted = FALSE
    /\ out = << >>
    /\ ended = "open"
    /\ client = "connected"
    /\ late = FALSE
    /\ other \in { Response(s, "open") : s \in TwoStreams }

NextTwo ==
    \/ \E n \in 1..Len(upstream) : StreamData(n)
    \/ StreamEnd
    \/ \E n \in 1..Len(other.upstream) : OtherData(n)
    \/ OtherEnd

SpecTwo == InitTwo /\ [][NextTwo]_vars

(***************************************************************************)
(* The properties.                                                         *)
(***************************************************************************)
\* The bytes delivered so far, as the text they are.
Delivered == ChunkToString(SubSeq(upstream, 1, pos))

\* The newline-terminated lines of text, in order.
CompleteLines(text) ==
    LET all == SplitNL(text) IN SubSeq(all, 1, Len(all) - 1)

\* The text after the last newline of text.
Fragment(text) ==
    LET all == SplitNL(text) IN all[Len(all)]

\* The lines that are not empty: each has one event written for it.
NonEmpty(lines) == SelectSeq(lines, LAMBDA l : l # "")

\* C1: chunking invariance.  However the bytes delivered so far were cut
\* into chunks, the events written are the result of transforming, in
\* order, each newline-terminated line of the text delivered, the
\* think-block flag is the one that transformation leaves, and the text
\* after the last newline is held back, unparsed.
C1_ChunkingInvariance ==
    pc = "streaming" =>
        LET whole == ForEachLine(CompleteLines(Delivered), 1,
                                 [w |-> << >>, rs |-> FALSE], SHOW_REASONING)
        IN /\ out = whole.w
           /\ reasoningStarted = whole.rs
           /\ buffer = Fragment(Delivered)

\* C1, its case: an event whose answer is one two-byte character was
\* delivered in chunks and answered with two U+FFFD in its place.
C1_CharacterSplit ==
    /\ pc = "streaming"
    /\ upstream = JoinLines(<<LineUtf8>>)
    /\ pos = Len(upstream)
    /\ out = << "data: {\"choices\":[{\"delta\":{\"content\":\"??\"}}]}\n\n" >>

\* The delta of the first choice of an upstream line that parses.
DeltaOfLine(line) ==
    IF StartsWith(line, "data: {") /\ JSONparse(Rest(line, 7)).ok
    THEN Choice0Delta(JSONparse(Rest(line, 7)).v)
    ELSE Undefined

HasText(delta, field) == Get(delta, field).t = "str" /\ Get(delta, field).s # ""

\* An event that carries reasoning text alone, one that carries answer
\* text alone.
ReasoningOnly(line) ==
    HasText(DeltaOfLine(line), "reasoning_content") /\ ~HasKey(DeltaOfLine(line), "content")

AnswerOnly(line) ==
    HasText(DeltaOfLine(line), "content") /\ ~HasKey(DeltaOfLine(line), "reasoning_content")

\* The text such a line carries.
TextOfLine(line) ==
    IF ReasoningOnly(line) THEN Get(DeltaOfLine(line), "reasoning_content").s
    ELSE Get(DeltaOfLine(line), "content").s

\* delta.content of an event written to the client.
EmittedContent(event) ==
    ToStr(Get(Choice0Delta(JSONparse(SubSeq(event, 7, Len(event) - 2)).v), "content"))

RECURSIVE Concat(_)
Concat(texts) == IF texts = << >> THEN "" ELSE Head(texts) \o Concat(Tail(texts))

\* C2: with reasoning display on, once a stream whose events, as the
\* handler was given them, are i >= 1 reasoning events followed by one or
\* more answer events is delivered, the first event
\* written carries the open delimiter and then its reasoning, event i + 1
\* the close delimiter and then its answer, every other event its text
\* alone; so the emitted contents concatenate to open + all reasoning +
\* close + all answers, each delimiter once.
C2_ThinkBlockOnce ==
    (pc = "streaming" /\ SHOW_REASONING /\ pos = Len(upstream)) =>
        LET lines == CompleteLines(received) IN
        \A i \in 1..(Len(lines) - 1) :
            (\A k \in 1..Len(lines) :
                IF k <= i THEN ReasoningOnly(lines[k]) ELSE AnswerOnly(lines[k]))
            => /\ Len(out) = Len(lines)
               /\ \A k \in 1..Len(lines) :
                      EmittedContent(out[k])
                          = (IF k = 1 THEN "<think>\n" ELSE "")
                            \o (IF k = i + 1 THEN "\n</think>\n\n" ELSE "")
                            \o TextOfLine(lines[k])
               /\ Concat([k \in 1..Len(out) |-> EmittedContent(out[k])])
                      = "<think>\n"
                        \o Concat([k \in 1..i |-> TextOfLine(lines[k])])
                        \o "\n</think>\n\n"
                        \o Concat([k \in 1..(Len(lines) - i) |-> TextOfLine(lines[i + k])])

\* C2, its case: several reasoning events and then several answer events
\* were delivered and answered.
C2_Witness ==
    /\ pc = "streaming"
    /\ SHOW_REASONING
    /\ upstream = ThinkThenAnswer(MaxRepeat, MaxRepeat)
    /\ pos = Len(upstream)
    /\ Len(out) = 2 * MaxRepeat

\* A line with the event marker whose payload JSON.parse refuses.
Unparsable(line) ==
    /\ StartsWith(line, "data: ")
    /\ Rest(line, 7) # "[DONE]"
    /\ ~JSONparse(Rest(line, 7)).ok

\* C3: every complete line the handler was given has its event written
\* (none raises, none ends the response), and the event of a line with the marker 'data: ' and an
\* unparsable payload is that line, unchanged, followed by a blank line.
C3_UnparsableForwardedUnchanged ==
    pc = "streaming" =>
        LET lines == NonEmpty(CompleteLines(received)) IN
        /\ Len(out) = Len(lines)
        /\ \A k \in 1..Len(lines) :
               Unparsable(lines[k]) => (k <= Len(out) /\ out[k] = lines[k] \o "\n\n")

\* C3, its case: the line 'data: not-json' was delivered and answered,
\* with the marker written twice.
C3_MarkerDoubled ==
    /\ pc = "streaming"
    /\ upstream = JoinLines(<<LineNotJson>>)
    /\ pos = Len(upstream)
    /\ out = << "data: data: not-json\n\n" >>

\* Whether text shows a reasoning field or a think delimiter.
ShowsReasoning(text) ==
    \/ Includes(text, "reasoning_content")
    \/ Includes(text, "<think>")
    \/ Includes(text, "</think>")

\* C4: with reasoning display off, no event and no document written to the
\* client on the NVIDIA path shows a reasoning_content field or a think
\* delimiter.
C4_NothingShownWhenHidden ==
    (provider = "nvidia" /\ ~SHOW_REASONING) =>
        /\ \A k \in 1..Len(out) : ~ShowsReasoning(out[k])
        /\ \A k \in 1..Len(responses) : ~ShowsReasoning(JSONstringify(responses[k].doc))

\* C4, its case: with reasoning display off, an event of two choices was
\* answered, the reasoning of the second choice still in it.
C4_SecondChoiceShown ==
    /\ pc = "streaming"
    /\ ~SHOW_REASONING
    /\ upstream = JoinLines(<<LineTwoChoices>>)
    /\ Len(out) = 1
    /\ Includes(out[1], "\"reasoning_content\":\"q\"")

\* The in-band control marker: the spec gives it no spelling, and this one
\* stands for it.
ThinkingMarker == "/think"

\* Whether a message of the conversation contains the marker.
ContainsMarker(messages) ==
    /\ messages.t = "arr"
    /\ \E i \in 1..Len(messages.a) :
           /\ Get(messages.a[i], "content").t = "str"
           /\ Includes(Get(messages.a[i], "content").s, ThinkingMarker)

\* Whether an upstream request body asks for thinking.
ThinkingRequested(post) == HasKey(post, "chat_template_kwargs")

C6_ModelNeverEmpty ==
    \A k \in 1..Len(posts) :
        /\ Get(posts[k], "model").t = "str"
        /\ Get(posts[k], "model").s # ""

\* C6, its case: a request without a model went to ElectronHub without one.
C6_NoModelPosted ==
    /\ provider = "ehub"
    /\ body.model = Undefined
    /\ Len(posts) = 1
    /\ Get(posts[1], "model") = Undefined

\* The fallback the ordered rules give a client model name.
ClaimedFallback(name) ==
    IF \/ Includes(ToLowerCase(name), "gpt-4")
       \/ Includes(ToLowerCase(name), "claude-opus")
       \/ Includes(ToLowerCase(name), "405b")
    THEN "meta/llama-3.1-405b-instruct"
    ELSE IF \/ Includes(ToLowerCase(name), "claude")
            \/ Includes(ToLowerCase(name), "gemini")
            \/ Includes(ToLowerCase(name), "70b")
    THEN "meta/llama-3.1-70b-instruct"
    ELSE "meta/llama-3.1-8b-instruct"

\* C7: on the NVIDIA path, once the main request of a client model name
\* that is no key of the static map and has no successful probe is issued,
\* its model is the fallback the ordered rules give the name.
C7_UnmappedGetsFallback ==
    (/\ provider = "nvidia"
     /\ body.model.t = "str"
     /\ ~HasKey(NVIDIA_MODEL_MAPPING, body.model.s)
     /\ probe # "2xx"
     /\ Len(posts) = 1)
    => /\ nimModel = Str(ClaimedFallback(body.model.s))
       /\ Get(posts[1], "model") = nimModel

\* C7, its case: the name 'constructor', no key of the map, was neither
\* probed nor given a fallback.
C7_InheritedNameResolved ==
    /\ provider = "nvidia"
    /\ body.model = Str("constructor")
    /\ probes = << >>
    /\ Len(posts) = 1
    /\ nimModel = Function

\* C8 as stated: whatever the probe's outcome, the main request is issued
\* exactly once; after a 2xx probe its model is the client's, verbatim,
\* after any other outcome the heuristic fallback.
C8_SuccessfulProbeVerbatim ==
    (provider = "nvidia" /\ probe # "none") =>
        /\ Len(posts) = 1
        /\ Get(posts[1], "model") = nimModel
        /\ nimModel = (IF probe = "2xx" THEN body.model
                       ELSE Str(ClaimedFallback(body.model.s)))

\* C8 as amended: whatever the probe's outcome, no error response comes of
\* it and the main request is issued exactly once; after a 2xx probe of a
\* non-empty client model its model is the client's, verbatim; after any
\* other outcome, and for the empty client model after any outcome, it is
\* the heuristic fallback.
C8_ProbeNeverFailsRequest ==
    (provider = "nvidia" /\ probe # "none") =>
        /\ Len(probes) = 1
        /\ Len(posts) = 1
        /\ (pc = "main" => responses = << >>)
        /\ Get(posts[1], "model") = nimModel
        /\ nimModel = (IF probe = "2xx" /\ body.model.s # "" THEN body.model
                       ELSE Str(ClaimedFallback(body.model.s)))

\* C8, its case: the probe of a name the map lacks failed without a reply,
\* and the main request went out once, with the fallback.
C8_Witness ==
    /\ provider = "nvidia"
    /\ probe = "network error"
    /\ body.model = Str("my-claude")
    /\ pc = "main"
    /\ Len(posts) = 1
    /\ Get(posts[1], "model") = Str("meta/llama-3.1-70b-instruct")

\* The content the claim gives a choice of an upstream reply.
ClaimedContent(choice, show) ==
    LET reasoning == Get(Get(choice, "message"), "reasoning_content")
        answer == ToStr(OrElse(Get(Get(choice, "message"), "content"), Str("")))
    IN IF show /\ reasoning.t = "str" /\ reasoning.s # ""
       THEN "<think>\n" \o reasoning.s \o "\n</think>\n\n" \o answer
       ELSE answer

\* The choices of response.data.
GivenChoices(data) ==
    IF Get(data, "choices").t = "arr" THEN Get(data, "choices").a ELSE << >>

\* C9: the document answering a non-streaming NVIDIA request has one
\* choice for each choice of the upstream reply, in order, and the content
\* of each is decided by that choice alone: with reasoning display on and
\* a non-empty reasoning field, '<think>\n' + reasoning + '\n</think>\n\n'
\* + answer; otherwise the answer, unmodified.
C9_ChoicesIndependent ==
    (provider = "nvidia" /\ reply.kind = "json") =>
        /\ Len(responses) = 1
        /\ Get(responses[1].doc, "choices").t = "arr"
        /\ Len(Get(responses[1].doc, "choices").a) = Len(GivenChoices(reply.data))
        /\ \A i \in 1..Len(GivenChoices(reply.data)) :
               Get(Get(Get(responses[1].doc, "choices").a[i], "message"), "content")
                   = Str(ClaimedContent(GivenChoices(reply.data)[i], SHOW_REASONING))

\* C9, its case: a reply of two choices, the first with reasoning
\* 'because' and answer '42', the second without reasoning, was answered.
C9_Witness ==
    /\ provider = "nvidia"
    /\ SHOW_REASONING
    /\ reply.kind = "json"
    /\ Len(GivenChoices(reply.data)) = 2
    /\ Get(Get(Get(responses[1].doc, "choices").a[1], "message"), "content")
           = Str("<think>\nbecause\n</think>\n\n42")
    /\ Get(Get(Get(responses[1].doc, "choices").a[2], "message"), "content") = Str("42")

\* C10: when the main request fails, on either path, streaming or not, the
\* client gets exactly one document, an error document whose status is the
\* upstream status, or 500 when there is none; nothing was written before
\* it, and the upstream request was issued once.
C10_OneErrorDocument ==
    reply.kind = "error" =>
        /\ pc = "done"
        /\ Len(posts) = 1
        /\ out = << >>
        /\ Len(responses) = 1
        /\ responses[1].status
               = (IF reply.err.response.t = "obj"
                  THEN Get(reply.err.response, "status").n ELSE 500)
        /\ Get(Get(responses[1].doc, "error"), "code") = Num(responses[1].status)
        /\ Get(Get(responses[1].doc, "error"), "type") = Str("provider_error")

\* C10, its case: a streaming ElectronHub request was refused with status
\* 503 and answered with it.
C10_Witness ==
    /\ provider = "ehub"
    /\ Truthy(body.stream)
    /\ reply.kind = "error"
    /\ Len(responses) = 1
    /\ responses[1].status = 503

\* C11: whenever the client's messages value is no sequence (absent, null,
\* or of another type), the upstream request body carries an empty
\* message sequence, and the request is issued all the same.
C11_InvalidMessagesDefaulted ==
    (body.messages.t # "arr" /\ pc # "start" /\ pc # "probe") =>
        /\ Len(posts) = 1
        /\ Get(posts[1], "messages") = Arr(<< >>)

\* C11, its case: a client's messages value that is a string went
\* upstream as it came.
C11_StringMessagesPosted ==
    /\ body.messages = Str("hello")
    /\ Len(posts) = 1
    /\ Get(posts[1], "messages") = Str("hello")

\* How many elements of a sequence equal x.
Count(seq, x) == Cardinality({k \in 1..Len(seq) : seq[k] = x})

\* C12: the sentinel is never fabricated.  On the NVIDIA streaming path,
\* whether the stream is open, has ended or has failed, the events
\* 'data: [DONE]' written are as many as the complete lines 'data: [DONE]'
\* the handler was given; so a stream that ends or fails before the
\* sentinel line leaves no [DONE] event.
C12_SentinelNeverFabricated ==
    pc = "streaming" =>
        Count(out, "data: [DONE]\n\n") = Count(CompleteLines(received), "data: [DONE]")

\* C12, its case: the upstream stream held the line '[DONE]' without the
\* marker and ended; the client was sent a sentinel event.
C12_BareLineBecomesSentinel ==
    /\ pc = "streaming"
    /\ upstream = JoinLines(<<LineBareDone>>)
    /\ ended = "end"
    /\ out = << "data: [DONE]\n\n" >>

\* C13: on the NVIDIA streaming path, while the stream is open and after
\* it has ended or failed, the buffer is the text given to the handler
\* after its last newline, a single fragment without a newline, and the
\* events written are those of the complete lines alone: the fragment
\* left at the end is discarded, nothing of it written.
C13_FragmentDiscarded ==
    pc = "streaming" =>
        /\ buffer = Fragment(received)
        /\ ~Includes(buffer, "\n")
        /\ out = ForEachLine(CompleteLines(received), 1,
                             [w |-> << >>, rs |-> FALSE], SHOW_REASONING).w

\* C13, its case: the stream ended with the fragment of an event pending.
C13_Witness ==
    /\ pc = "streaming"
    /\ ended = "end"
    /\ StartsWith(buffer, "data: ")
    /\ Len(out) >= 1

\* What a response that has received text has written, and its flag, when
\* it is the only one.
Alone(text, show) == ForEachLine(CompleteLines(text), 1, [w |-> << >>, rs |-> FALSE], show)

\* C14: with two streaming responses in flight and their chunks handled in
\* any interleaving, each response's buffer, flag and written events are
\* those it has when it runs alone on the text it received.
C14_ResponsesIndependent ==
    other.ended # "none" =>
        /\ out = Alone(received, SHOW_REASONING).w
        /\ reasoningStarted = Alone(received, SHOW_REASONING).rs
        /\ buffer = Fragment(received)
        /\ other.out = Alone(other.received, SHOW_REASONING).w
        /\ other.reasoningStarted = Alone(other.received, SHOW_REASONING).rs
        /\ other.buffer = Fragment(other.received)

\* Both responses are open, one inside a think-block and holding a
\* fragment, the other outside with an event written.
C14_Witness ==
    /\ ended = "open"
    /\ other.ended = "open"
    /\ reasoningStarted
    /\ buffer # ""
    /\ ~other.reasoningStarted
    /\ Len(other.out) >= 1
    /\ other.pos < Len(other.upstream)

\* C15: once the client has disconnected from a streaming response, no
\* further upstream chunk is handled or written for that response.
C15_NoChunkAfterDisconnect == client = "gone" => ~late

\* The client has gone, and a chunk that arrived afterwards went through
\* the 'data' handler of /nvidia, which wrote its events.
C15_ChunkAfterDisconnect ==
    /\ pc = "streaming"
    /\ client = "gone"
    /\ late
    /\ pos = Len(upstream)
    /\ Len(out) >= 1

\* A line whose choices[0].delta carries non-empty reasoning text or
\* non-empty answer text.
CarriesText(line) ==
    HasText(DeltaOfLine(line), "reasoning_content") \/ HasText(DeltaOfLine(line), "content")

\* C16: only events whose choices[0].delta carries non-empty reasoning or
\* answer text move the think-block flag: the flag is the one the
\* text-carrying lines alone lead to, whatever sentinel, unparsable,
\* markerless, empty or text-free lines came between them, and every
\* non-empty line received, whichever came before it, has been written.
C16_OnlyTextMovesFlag ==
    pc = "streaming" =>
        /\ reasoningStarted =
               ForEachLine(SelectSeq(CompleteLines(received), CarriesText), 1,
                           [w |-> << >>, rs |-> FALSE], SHOW_REASONING).rs
        /\ Len(out) = Len(NonEmpty(CompleteLines(received)))

\* A think-block is open and a line that carries no text has been handled
\* after the one that opened it.
C16_Witness ==
    /\ pc = "streaming"
    /\ reasoningStarted
    /\ Len(CompleteLines(received)) = 2
    /\ CarriesText(CompleteLines(received)[1])
    /\ ~CarriesText(CompleteLines(received)[2])
    /\ Len(out) = 2

\* choices[0].delta of an event written to the client.
EmittedDelta(event) == DeltaOfLine(SubSeq(event, 1, Len(event) - 2))

\* The events a delta with a content or a reasoning field came in by,
\* among the non-empty lines received.
WithEitherField(lines) ==
    {k \in 1..Len(lines) : \/ HasKey(DeltaOfLine(lines[k]), "content")
                            \/ HasKey(DeltaOfLine(lines[k]), "reasoning_content")}

\* C17: with reasoning display enabled, every event whose delta came in
\* with a content or a reasoning field goes out without the raw reasoning
\* field, an empty or null one included.
C17_RawReasoningRemoved ==
    (pc = "streaming" /\ SHOW_REASONING) =>
        \A k \in WithEitherField(NonEmpty(CompleteLines(received))) :
            ~HasKey(EmittedDelta(out[k]), "reasoning_content")

\* An event whose only field is an empty reasoning text has been written
\* with that field still in it, no think-block opened.
C17_EmptyReasoningKept ==
    /\ pc = "streaming"
    /\ SHOW_REASONING
    /\ CompleteLines(received) = << LineEmptyReasoning >>
    /\ out = << LineEmptyReasoning \o "\n\n" >>
    /\ ~reasoningStarted

\* The document of a line that is a parsed event, and of an event written.
ParsedLine(line) == JSONparse(Rest(line, 7)).v

ParsedEvent(event) == ParsedLine(SubSeq(event, 1, Len(event) - 2))

\* The parsed events whose choices[0].delta carries neither reasoning text
\* nor answer text, among the non-empty lines received.
TextFree(lines) ==
    {k \in 1..Len(lines) : Truthy(DeltaOfLine(lines[k])) /\ ~CarriesText(lines[k])}

\* C18 as stated: a parsed event whose delta carries neither reasoning
\* text nor answer text is written with the fields and values it came
\* with, reasoning display enabled or not.
C18_TextFreeUnchanged ==
    pc = "streaming" =>
        \A k \in TextFree(NonEmpty(CompleteLines(received))) :
            ParsedEvent(out[k]) = ParsedLine(NonEmpty(CompleteLines(received))[k])

\* C18, amended: such an event is written as it came when reasoning
\* display is enabled; when it is disabled the event's delta is written
\* with content set (to the empty string when it had none) and without
\* its reasoning field, everything else as it came.
C18_TextFreeUnchangedWhenShown ==
    pc = "streaming" =>
        \A k \in TextFree(NonEmpty(CompleteLines(received))) :
            ParsedEvent(out[k]) =
                IF SHOW_REASONING
                THEN ParsedLine(NonEmpty(CompleteLines(received))[k])
                ELSE WithChoice0Delta(
                         ParsedLine(NonEmpty(CompleteLines(received))[k]),
                         DeleteKey(SetKey(DeltaOfLine(NonEmpty(CompleteLines(received))[k]),
                                          "content", Str("")),
                                   "reasoning_content"))

\* A role-only event has been written with reasoning display disabled,
\* an empty content added to its delta.
C18_Witness ==
    /\ pc = "streaming"
    /\ ~SHOW_REASONING
    /\ CompleteLines(received) = << LineRole >>
    /\ Len(out) = 1
    /\ EmittedDelta(out[1]) =
           Obj(<< [k |-> "role", v |-> Str("assistant")], [k |-> "content", v |-> Str("")] >>)

\* delta.content of an event written, "" when it has no such text.
ContentOf(event) ==
    IF Get(EmittedDelta(event), "content").t = "str"
    THEN Get(EmittedDelta(event), "content").s
    ELSE ""

\* The answer text written so far, event after event.
EmittedText == Concat([k \in 1..Len(out) |-> ContentOf(out[k])])

\* How often p occurs in s.
Occurrences(s, p) ==
    Cardinality({i \in 1..(Len(s) - Len(p) + 1) : SubSeq(s, i, i + Len(p) - 1) = p})

\* Opening delimiters less closing delimiters in s.
Balance(s) == Occurrences(s, THINK_OPEN) - Occurrences(s, THINK_CLOSE)

\* C19: the think-block flag is true exactly when one more opening than
\* closing delimiter has been emitted on the stream, and at every point of
\* the emitted text the delimiters so far are balanced or one block is
\* open: they alternate open, close, open, close, and no close comes with
\* no block open.
C19_FlagIsOpenBlock ==
    pc = "streaming" =>
        /\ reasoningStarted = (Balance(EmittedText) = 1)
        /\ \A n \in 0..Len(EmittedText) : Balance(SubSeq(EmittedText, 1, n)) \in { 0, 1 }

\* A block was opened, closed, and a second one is open.
C19_Witness ==
    /\ pc = "streaming"
    /\ reasoningStarted
    /\ Occurrences(EmittedText, THINK_OPEN) = 2
    /\ Occurrences(EmittedText, THINK_CLOSE) = 1

\* The lines among lines that carry text.
TextLines(lines) == SelectSeq(lines, CarriesText)

\* Whether the last line that carries text carries reasoning text and no
\* answer text.
EndsInReasoning(lines) ==
    /\ TextLines(lines) # << >>
    /\ ~HasText(DeltaOfLine(TextLines(lines)[Len(TextLines(lines))]), "content")

\* C20: a closing delimiter is written only inside an event that carries
\* non-empty answer text; the sentinel, the end of the stream and its
\* failure write none, so the text written for a stream whose last
\* text-carrying event holds reasoning alone ends with its think-block
\* open.
C20_CloseOnlyWithAnswer ==
    pc = "streaming" =>
        /\ Len(out) = Len(NonEmpty(CompleteLines(received)))
        /\ \A k \in 1..Len(out) :
               Includes(out[k], "</think>") =>
                   HasText(DeltaOfLine(NonEmpty(CompleteLines(received))[k]), "content")
        /\ (SHOW_REASONING /\ EndsInReasoning(CompleteLines(received))) =>
               /\ reasoningStarted
               /\ Balance(EmittedText) = 1

\* Reasoning, then the sentinel, then the end of the stream: the block
\* opened is still open.
C20_Witness ==
    /\ pc = "streaming"
    /\ SHOW_REASONING
    /\ ended = "end"
    /\ CompleteLines(received) = << LineR, LineDone >>
    /\ Len(out) = 2
    /\ out[2] = "data: [DONE]\n\n"
    /\ Occurrences(EmittedText, THINK_OPEN) = 1
    /\ Occurrences(EmittedText, THINK_CLOSE) = 0

====
